---- MODULE Spec2Model ----
(***************************************************************************)
(* A model of hll-go: the Sketch (register array, version, bias table),    *)
(* Insert / addHash, Estimate, Merge, ProtoSerialize / ProtoDeserialize,   *)
(* the constructors, and Rollup.                                           *)
(*                                                                         *)
(* The library fixes hashLength = 64 and precision = 14 (m = 16384         *)
(* registers).  The model keeps every formula of the code but runs it on a *)
(* narrower hash word: hashLength and precision below are the model's      *)
(* scale, and m, remnant, bitMask and maxLinearCounting are derived from   *)
(* them exactly as the code derives them (maxLinearCounting keeps its      *)
(* ratio 11500 / 16384 to m).                                              *)
(***************************************************************************)
EXTENDS Integers, Sequences, FiniteSets, TLC

VARIABLES heap, seen, biasStore, wire, ret, gen, procs

vars == <<heap, seen, biasStore, wire, ret, gen, procs>>

(***************************************************************************)
(* Scale of the model.                                                     *)
(***************************************************************************)
hashLength == 5

precision == 2

MaxSketches == 2

MaxElem == 2

MaxList == 2

MaxProcs == 3

(***************************************************************************)
(* Constants of the library.                                               *)
(***************************************************************************)
remnant == hashLength - precision

currentVersion == "1"

RECURSIVE Pow2(_)
Pow2(n) == IF n <= 0 THEN 1 ELSE 2 * Pow2(n - 1)

m == Pow2(precision)

bitMask == Pow2(remnant) - 1

maxLinearCounting == (11500 * m) \div 16384

ErrorMismatchedVersion == "sketch version mismatch"

ErrorMalformedPrecision == "sketch precision mismatch"

NoError == "nil"

IndexOutOfRange == "panic: index out of range"

(***************************************************************************)
(* Small helpers over sequences and fixed-width integers.                  *)
(***************************************************************************)
Max(a, b) == IF a >= b THEN a ELSE b

Zeros(n) == [i \in 1..n |-> 0]

ToUint8(x) == x % 256

RECURSIVE BitLen(_)
BitLen(x) == IF x <= 0 THEN 0 ELSE 1 + BitLen(x \div 2)

\* bits.LeadingZeros on a word of hashLength bits.
LeadingZeros(x) == hashLength - BitLen(x)

(***************************************************************************)
(* Bias tables.  biases.go is not part of the sources at hand: a table is  *)
(* modelled by the two things Estimate reads from it, its maxTick and the  *)
(* interpolated multiplier (in percent).                                   *)
(***************************************************************************)
defaultBiases == [maxTick |-> 7 * m, bias |-> 98]

\* The table the tests register: ticks 0..4, every multiplier 0.0.
testBiases == [maxTick |-> 4, bias |-> 0]

BiasKeys == {"", "custom"}

getInterpolatedBias(bs, x) == bs.bias

(***************************************************************************)
(* The sketch.                                                             *)
(***************************************************************************)
createSketch == [biasSet |-> defaultBiases, registers |-> Zeros(m), version |-> currentVersion]

getRegisters(s) == s.registers

getVersion(s) == s.version

\* The stand-in for xxh3.Hash on the model's elements 1..MaxElem: a fixed
\* function into hashLength-bit words.
Hash(element) == (8 + 5 * (element - 1) * (element - 1)) % Pow2(hashLength)

\* getRegisterAndLeadingZeros counting over the whole word: the precision
\* bits in front of the remnant are not taken off.
getRegisterAndLeadingZerosWholeWord(hash) ==
    <<hash \div Pow2(remnant), ToUint8(LeadingZeros(hash % (bitMask + 1)))>>

\* <<register, zeros>>; registers are numbered from 0 as in the code.
getRegisterAndLeadingZeros(hash) ==
    <<hash \div Pow2(remnant), ToUint8(LeadingZeros(hash % (bitMask + 1)) - precision)>>

\* addHash without the comparison: the register takes the new count.
addHashOverwrites(s, h) ==
    LET rz == getRegisterAndLeadingZeros(h)
    IN  IF rz[1] >= Len(s.registers)
        THEN [err |-> IndexOutOfRange, sketch |-> s]
        ELSE [err |-> NoError,
              sketch |-> [s EXCEPT !.registers[rz[1] + 1] = ToUint8(rz[2] + 1)]]

\* The sketch after addHash, or the panic of an out-of-range register access.
addHash(s, h) ==
    LET rz == getRegisterAndLeadingZeros(h)
        register == rz[1]
        zeros == ToUint8(rz[2] + 1)
    IN  IF register >= Len(s.registers)
        THEN [err |-> IndexOutOfRange, sketch |-> s]
        ELSE IF s.registers[register + 1] >= zeros
             THEN [err |-> NoError, sketch |-> s]
             ELSE [err |-> NoError,
                   sketch |-> [s EXCEPT !.registers[register + 1] = zeros]]

Insert(s, element) == addHash(s, Hash(element))

(***************************************************************************)
(* Estimate.  The code computes in float64; the model computes the same    *)
(* quantities in fixed point.  alpha = 1 / (2 ln 2) is taken as            *)
(* 7213 / 10000 and the natural logarithm is the atanh series on a scale   *)
(* of 10000.                                                               *)
(***************************************************************************)
registersUsed(s) == Cardinality({i \in DOMAIN s.registers : s.registers[i] > 0})

zeroRegisters(s) == Cardinality({i \in DOMAIN s.registers : s.registers[i] <= 0})

MaxRegister(s) ==
    IF s.registers = <<>> THEN 0
    ELSE CHOOSE v \in {s.registers[i] : i \in DOMAIN s.registers} :
            \A i \in DOMAIN s.registers : s.registers[i] <= v

RECURSIVE SumPow(_, _, _)
\* Sum over the touched registers 1..i of 2^(k - registers[i]).
SumPow(regs, i, k) ==
    IF i = 0 THEN 0
    ELSE SumPow(regs, i - 1, k) + (IF regs[i] > 0 THEN Pow2(k - regs[i]) ELSE 0)

\* rawHarmonicEstimate with registersUsed taken once instead of squared.
rawHarmonicEstimateUnsquared(s) ==
    LET used == registersUsed(s)
        k == MaxRegister(s)
        sum == SumPow(s.registers, Len(s.registers), k)
    IN  IF used <= 0 THEN 0
        ELSE (7213 * used * Pow2(k)) \div (10000 * sum)

rawHarmonicEstimate(s) ==
    LET used == registersUsed(s)
        k == MaxRegister(s)
        sum == SumPow(s.registers, Len(s.registers), k)
    IN  IF used <= 0 THEN 0
        ELSE (7213 * used * used * Pow2(k)) \div (10000 * sum)

RECURSIVE AtanhSeries(_, _, _, _)
AtanhSeries(term, y2, k, n) ==
    IF n = 0 THEN 0
    ELSE (term \div (2 * k + 1)) + AtanhSeries((term * y2) \div 10000, y2, k + 1, n - 1)

\* 10000 * ln(num / den) for num >= den > 0.
LnScaled(num, den) ==
    LET y == ((num - den) * 10000) \div (num + den)
    IN  2 * AtanhSeries(y, (y * y) \div 10000, 0, 30)

\* What uint64(+Inf) yields is left to the platform; the model marks it.
InfAsUint64 == 0 - 1

linearCounting(s) ==
    LET zeros == zeroRegisters(s)
    IN  IF zeros = 0 THEN InfAsUint64
        ELSE (m * LnScaled(m, zeros)) \div 10000

Estimate(s) ==
    LET rawEstimate == rawHarmonicEstimate(s)
    IN  IF rawEstimate > s.biasSet.maxTick THEN rawEstimate
        ELSE IF rawEstimate < maxLinearCounting THEN linearCounting(s)
        ELSE (getInterpolatedBias(s.biasSet, rawEstimate) * rawEstimate) \div 100

(***************************************************************************)
(* Merge.  The result is the error and the receiver as the call leaves it. *)
(***************************************************************************)
\* Merge that combines the common prefix before it compares the lengths.
MergeWritesBeforeLengthCheck(s, other) ==
    LET otherRegisters == getRegisters(other)
        merged == [i \in DOMAIN s.registers |->
                      IF i <= Len(otherRegisters) /\ otherRegisters[i] > s.registers[i]
                      THEN otherRegisters[i] ELSE s.registers[i]]
    IN  IF s.version # getVersion(other)
        THEN [err |-> ErrorMismatchedVersion, sketch |-> s]
        ELSE [err |-> IF Len(s.registers) # Len(otherRegisters)
                      THEN ErrorMalformedPrecision ELSE NoError,
              sketch |-> [s EXCEPT !.registers = merged]]

\* Merge whose loop stops one register short.
MergeSkipsLastRegister(s, other) ==
    IF s.version # getVersion(other)
    THEN [err |-> ErrorMismatchedVersion, sketch |-> s]
    ELSE IF Len(s.registers) # Len(getRegisters(other))
    THEN [err |-> ErrorMalformedPrecision, sketch |-> s]
    ELSE [err |-> NoError,
          sketch |-> [s EXCEPT !.registers =
              [i \in DOMAIN s.registers |->
                  IF i < Len(s.registers) /\ getRegisters(other)[i] > s.registers[i]
                  THEN getRegisters(other)[i] ELSE s.registers[i]]]]

\* Merge with the comparison turned round: it keeps the lower entry.
MergeKeepsLower(s, other) ==
    IF s.version # getVersion(other)
    THEN [err |-> ErrorMismatchedVersion, sketch |-> s]
    ELSE IF Len(s.registers) # Len(getRegisters(other))
    THEN [err |-> ErrorMalformedPrecision, sketch |-> s]
    ELSE [err |-> NoError,
          sketch |-> [s EXCEPT !.registers =
              [i \in DOMAIN s.registers |->
                  IF getRegisters(other)[i] < s.registers[i]
                  THEN getRegisters(other)[i] ELSE s.registers[i]]]]

Merge(s, other) ==
    IF s.version # getVersion(other)
    THEN [err |-> ErrorMismatchedVersion, sketch |-> s]
    ELSE LET otherRegisters == getRegisters(other)
         IN  IF Len(s.registers) # Len(otherRegisters)
             THEN [err |-> ErrorMalformedPrecision, sketch |-> s]
             ELSE [err |-> NoError,
                   sketch |-> [s EXCEPT !.registers =
                       [i \in DOMAIN s.registers |->
                           IF otherRegisters[i] > s.registers[i]
                           THEN otherRegisters[i] ELSE s.registers[i]]]]

(***************************************************************************)
(* The protobuf boundary.  proto.Marshal / proto.Unmarshal and the schema  *)
(* (Sketch { string version = 1; repeated uint32 registers = 2; }) are not *)
(* in the sources at hand; they are modelled as the proto3 wire format:    *)
(* a length-delimited string under tag 10 (left out when empty) and packed *)
(* varints under tag 18 (left out when empty; tag 16 is the unpacked form  *)
(* a decoder also accepts).  A payload is a sequence of bytes; the nil     *)
(* slice is NilBytes.                                                      *)
(***************************************************************************)
NilBytes == <<0 - 1>>

Versions == {"", "1", "vTEST"}

StrBytes(v) ==
    CASE v = "" -> <<>>
      [] v = "1" -> <<49>>
      [] v = "vTEST" -> <<118, 84, 69, 83, 84>>

\* Bytes that spell none of the model's versions decode to this one.
OtherString == "?"

BytesStr(bs) ==
    IF \E v \in Versions : StrBytes(v) = bs
    THEN CHOOSE v \in Versions : StrBytes(v) = bs
    ELSE OtherString

RECURSIVE Varint(_)
Varint(x) == IF x < 128 THEN <<x>> ELSE <<128 + (x % 128)>> \o Varint(x \div 128)

RECURSIVE PackVarints(_)
PackVarints(xs) == IF xs = <<>> THEN <<>> ELSE Varint(Head(xs)) \o PackVarints(Tail(xs))

RECURSIVE ReadVarint(_, _)
\* The varint starting at position p of bs: [ok, val, next].
ReadVarint(bs, p) ==
    IF p > Len(bs) THEN [ok |-> FALSE, val |-> 0, next |-> p]
    ELSE IF bs[p] < 128 THEN [ok |-> TRUE, val |-> bs[p], next |-> p + 1]
    ELSE LET rest == ReadVarint(bs, p + 1)
         IN  [ok |-> rest.ok, val |-> (bs[p] - 128) + 128 * rest.val, next |-> rest.next]

RECURSIVE UnpackVarints(_, _, _)
\* The varints of bs from position p up to (not including) position end.
UnpackVarints(bs, p, end) ==
    IF p >= end THEN [ok |-> p = end, vals |-> <<>>]
    ELSE LET v == ReadVarint(bs, p)
         IN  IF ~v.ok \/ v.next > end THEN [ok |-> FALSE, vals |-> <<>>]
             ELSE LET rest == UnpackVarints(bs, v.next, end)
                  IN  [ok |-> rest.ok, vals |-> <<v.val>> \o rest.vals]

Marshal(msg) ==
    LET vb == StrBytes(msg.Version)
        packed == PackVarints(msg.Registers)
    IN  (IF vb = <<>> THEN <<>> ELSE <<10>> \o Varint(Len(vb)) \o vb)
        \o (IF packed = <<>> THEN <<>> ELSE <<18>> \o Varint(Len(packed)) \o packed)

RECURSIVE UnmarshalFrom(_, _, _)
\* Decode the fields of bs from position p on into msg: [ok, msg].
UnmarshalFrom(bs, p, msg) ==
    IF p > Len(bs) THEN [ok |-> TRUE, msg |-> msg]
    ELSE IF bs[p] = 16
    THEN LET v == ReadVarint(bs, p + 1)
         IN  IF ~v.ok THEN [ok |-> FALSE, msg |-> msg]
             ELSE UnmarshalFrom(bs, v.next,
                      [msg EXCEPT !.Registers = Append(@, v.val)])
    ELSE IF bs[p] \in {10, 18}
    THEN LET n == ReadVarint(bs, p + 1)
             end == n.next + n.val
         IN  IF ~n.ok \/ end > Len(bs) + 1 THEN [ok |-> FALSE, msg |-> msg]
             ELSE IF bs[p] = 10
             THEN UnmarshalFrom(bs, end,
                      [msg EXCEPT !.Version = BytesStr(SubSeq(bs, n.next, end - 1))])
             ELSE LET u == UnpackVarints(bs, n.next, end)
                  IN  IF ~u.ok THEN [ok |-> FALSE, msg |-> msg]
                      ELSE UnmarshalFrom(bs, end,
                               [msg EXCEPT !.Registers =
                                   @ \o u.vals])
    ELSE [ok |-> FALSE, msg |-> msg]

Unmarshal(bs) == UnmarshalFrom(bs, 1, [Version |-> "", Registers |-> <<>>])

UnmarshalError == "proto: cannot parse invalid wire-format data"

ProtoSerialize(s) ==
    LET registerspb == [i \in DOMAIN s.registers |-> s.registers[i]]
    IN  [err |-> NoError,
         bytes |-> Marshal([Version |-> s.version, Registers |-> registerspb])]

\* ProtoDeserialize that never copies the decoded registers.
ProtoDeserializeDropsRegisters(protoBs) ==
    IF protoBs = NilBytes
    THEN [err |-> "cannot deserialize nil proto", sketch |-> createSketch]
    ELSE LET sketchpb == Unmarshal(protoBs)
         IN  IF ~sketchpb.ok THEN [err |-> UnmarshalError, sketch |-> createSketch]
             ELSE [err |-> NoError,
                   sketch |-> [createSketch EXCEPT !.version = sketchpb.msg.Version]]

\* [err, sketch]; sketch is the returned sketch when err is NoError.
ProtoDeserialize(protoBs) ==
    IF protoBs = NilBytes
    THEN [err |-> "cannot deserialize nil proto", sketch |-> createSketch]
    ELSE LET sketchpb == Unmarshal(protoBs)
         IN  IF ~sketchpb.ok THEN [err |-> UnmarshalError, sketch |-> createSketch]
             ELSE IF Len(sketchpb.msg.Registers) > Len(createSketch.registers)
             THEN [err |-> IndexOutOfRange, sketch |-> createSketch]
             ELSE [err |-> NoError,
                   sketch |-> [createSketch EXCEPT
                       !.version = sketchpb.msg.Version,
                       !.registers = [i \in DOMAIN @ |->
                           IF i <= Len(sketchpb.msg.Registers)
                           THEN ToUint8(sketchpb.msg.Registers[i]) ELSE @[i]]]]

(***************************************************************************)
(* Rollup (utils.go).  sketches is a sequence of sketches; the nil and the *)
(* empty list both have length 0.                                          *)
(***************************************************************************)
RollupNoList == "rollup requires a list of sketches"

RollupVersion == "rollup requires a list of sketches with the same version"

RollupPrecision == "rollup requires a list of sketches with the same precision (len of registers)"

RECURSIVE RollupValidateVersionOnly(_, _)
\* The validation loop without its comparison of the register lengths.
RollupValidateVersionOnly(sketches, i) ==
    IF i > Len(sketches) THEN NoError
    ELSE IF getVersion(sketches[i]) # getVersion(sketches[1]) THEN RollupVersion
    ELSE RollupValidateVersionOnly(sketches, i + 1)

RECURSIVE RollupValidate(_, _)
\* The validation loop from element i on: the first error it returns, or NoError.
RollupValidate(sketches, i) ==
    IF i > Len(sketches) THEN NoError
    ELSE IF getVersion(sketches[i]) # getVersion(sketches[1]) THEN RollupVersion
    ELSE IF Len(getRegisters(sketches[i])) # Len(getRegisters(sketches[1])) THEN RollupPrecision
    ELSE RollupValidate(sketches, i + 1)

RECURSIVE MaxOver(_, _, _)
\* The highest entry of register i over sketches 1..k.
MaxOver(sketches, i, k) ==
    IF k = 0 THEN 0 ELSE Max(MaxOver(sketches, i, k - 1), getRegisters(sketches[k])[i])

Rollup(sketches) ==
    IF Len(sketches) <= 0 THEN [err |-> RollupNoList, sketch |-> createSketch]
    ELSE LET verdict == RollupValidate(sketches, 2)
             base == [createSketch EXCEPT !.version = getVersion(sketches[1])]
         IN  IF verdict # NoError THEN [err |-> verdict, sketch |-> createSketch]
             ELSE IF \E k \in DOMAIN sketches :
                        Len(getRegisters(sketches[k])) < Len(base.registers)
             THEN [err |-> IndexOutOfRange, sketch |-> createSketch]
             ELSE [err |-> NoError,
                   sketch |-> [base EXCEPT !.registers =
                       [i \in DOMAIN @ |-> MaxOver(sketches, i, Len(sketches))]]]

(***************************************************************************)
(* The bias generator.  A nil pointer or function is the empty sequence,   *)
(* a non-nil one the sequence of what it points to; the sampler fn is the  *)
(* set of elements it can return; a float64 step rate is the pair          *)
(* <<numerator, denominator>> of a fraction.                               *)
(***************************************************************************)
GenerationOptions(maxCardinality, repeats, initialStep, stepRate) ==
    [MaxCardinality |-> maxCardinality, Repeats |-> repeats,
     InitialStep |-> initialStep, StepRate |-> stepRate]

DefaultGenerationOptions == GenerationOptions(m * 7, 5000, 50, <<5, 4>>)

ErrorNilFn == "invalid fn: must not be nil"

ErrorMaxCardinality == "invalid options: maxCardinality must be greater than m"

ErrorRepeats == "invalid options: repeats must be greater than 0"

ErrorInitialStep == "invalid options: step must be greater than 0"

ErrorStepRate == "invalid options: step rate must be greater than 0"

OutOfMemory == "fatal error: out of memory"

SliceOutOfRange == "panic: slice bounds out of range"

\* The options GenerateBiases goes on with.
EffectiveOptions(options) ==
    IF options = <<>> THEN DefaultGenerationOptions ELSE options[1]

\* The checks of GenerateBiases without the one on Repeats.
GenerateBiasesValidateSkipsRepeats(fn, options) ==
    LET o == EffectiveOptions(options)
    IN  IF fn = <<>> THEN ErrorNilFn
        ELSE IF o.MaxCardinality <= m THEN ErrorMaxCardinality
        ELSE IF o.InitialStep <= 0 THEN ErrorInitialStep
        ELSE IF o.StepRate[1] <= 0 THEN ErrorStepRate
        ELSE NoError

\* The checks GenerateBiases starts with, in their order: the error
\* returned, or NoError.
GenerateBiasesValidate(fn, options) ==
    LET o == EffectiveOptions(options)
    IN  IF fn = <<>> THEN ErrorNilFn
        ELSE IF o.MaxCardinality <= m THEN ErrorMaxCardinality
        ELSE IF o.Repeats <= 0 THEN ErrorRepeats
        ELSE IF o.InitialStep <= 0 THEN ErrorInitialStep
        ELSE IF o.StepRate[1] <= 0 THEN ErrorStepRate
        ELSE NoError

\* uint64(float64(step) * stepRate)
ScaleStep(step, stepRate) == (step * stepRate[1]) \div stepRate[2]

\* The slice of ticks can hold this many entries before the runtime gives
\* up; no loop whose step stays above 0 comes near it.
MaxTicks == 3 * m + 1

\* The call's frame: where it is (pc), its arguments (fn, in), the options
\* in force, the error returned, whether fn has been invoked, the locals
\* of calculateInterpolationPoints (i, step, nextStepChange, ticks), its
\* result (cardinalities), the locals of generateSets (r for the set index,
\* totalUniquesGenerated, uniques, sets) and the results.
GenIdle ==
    [pc |-> "idle", fn |-> <<>>, in |-> <<>>, options |-> DefaultGenerationOptions,
     err |-> NoError, invoked |-> FALSE,
     i |-> 0, step |-> 0, nextStepChange |-> 0, ticks |-> <<>>, cardinalities |-> <<>>,
     r |-> 0, totalUniquesGenerated |-> 0, uniques |-> {}, sets |-> <<>>,
     results |-> <<>>]

\* calculateInterpolationPoints: the frame on entry.
PointsEnter(g) ==
    [g EXCEPT !.pc = "calculateInterpolationPoints",
              !.i = 0, !.step = g.options.InitialStep,
              !.nextStepChange = g.options.MaxCardinality \div 10, !.ticks = <<>>]

\* One pass of the loop of calculateInterpolationPoints (i < maxCardinality).
PointsStep(g) ==
    LET rangeLength == g.options.MaxCardinality \div 10
        change == g.i > g.nextStepChange
        step == IF change THEN ScaleStep(g.step, g.options.StepRate) ELSE g.step
    IN  IF Len(g.ticks) >= MaxTicks THEN [g EXCEPT !.pc = OutOfMemory]
        ELSE [g EXCEPT !.nextStepChange = IF change THEN @ + rangeLength ELSE @,
                       !.step = step,
                       !.ticks = Append(@, g.i),
                       !.i = @ + step]

\* return ticks[1:]
PointsReturn(g) ==
    IF g.ticks = <<>> THEN [g EXCEPT !.pc = SliceOutOfRange]
    ELSE [g EXCEPT !.pc = "cardinalities", !.cardinalities = Tail(g.ticks)]

\* generateSets: the frame on entry.
SetsEnter(g) ==
    [g EXCEPT !.pc = "generateSets",
              !.r = 0, !.totalUniquesGenerated = 0, !.uniques = {}, !.sets = <<>>]

\* One pass of the inner loop of generateSets that counts the candidate
\* before it looks it up.
SampleCountsRepeats(g, element) ==
    [g EXCEPT !.invoked = TRUE,
              !.totalUniquesGenerated = @ + 1,
              !.uniques = @ \cup {Hash(element)}]

\* One pass of the inner loop of generateSets, fn() returning element.
Sample(g, element) ==
    LET candidate == Hash(element)
    IN  IF candidate \in g.uniques
        THEN [g EXCEPT !.invoked = TRUE]
        ELSE [g EXCEPT !.invoked = TRUE,
                       !.totalUniquesGenerated = @ + 1,
                       !.uniques = @ \cup {candidate}]

\* The orders a range over the map uniques can take.
Orders(uniques) ==
    {set \in [1..Cardinality(uniques) -> uniques] :
        \A j, k \in 1..Cardinality(uniques) : j # k => set[j] # set[k]}

\* The end of one pass of the outer loop: the set is appended and the next
\* pass starts with an empty map.
SetDone(g, set) ==
    [g EXCEPT !.sets = Append(@, set), !.r = @ + 1,
              !.totalUniquesGenerated = 0, !.uniques = {}]

\* return sets
SetsReturn(g) == [g EXCEPT !.pc = "sets"]

\* The goroutines that use the bias registry: the holder of the registry's
\* lock (0 for none) and one frame per goroutine.
NoProcs == [mu |-> 0, g |-> <<>>]

(***************************************************************************)
(* The state.                                                              *)
(*   heap       the sketches the caller holds, by identity 1..Len(heap)    *)
(*   biasStore  the process-wide registry, key -> bias table               *)
(*   wire       the payload in flight: its bytes, the sketch it was        *)
(*              serialized from, and whether it is still that encoding     *)
(*   ret        the last call: operation, arguments (Merge: receiver and   *)
(*              other; Rollup: the list), error, returned sketch identity  *)
(*              (0 for nil), freshly built sketch returned (out, at most   *)
(*              one) and returned number                                   *)
(*   seen       history: the pairs <<s, element>> Insert has completed,    *)
(*              and <<s, 0>> while the last call was an Insert into s of   *)
(*              an element s had had inserted before                       *)
(*   gen        the GenerateBiases call in progress (see GenIdle)          *)
(*   procs      the goroutines using the bias registry (see NoProcs)       *)
(***************************************************************************)
Ids == 1..Len(heap)

Elements == 1..MaxElem

Ret(op, args, err, id, out, val) ==
    [op |-> op, args |-> args, err |-> err, id |-> id, out |-> out, val |-> val]

InitWire == [bytes |-> NilBytes, src |-> createSketch, intact |-> FALSE]

Init ==
    /\ heap = <<>>
    /\ seen = {}
    /\ gen = GenIdle
    /\ procs = NoProcs
    /\ biasStore = <<>>
    /\ wire = InitWire
    /\ ret = Ret("init", <<>>, NoError, 0, <<>>, 0)

\* NewSketch
NewSketchOp ==
    /\ Len(heap) < MaxSketches
    /\ heap' = Append(heap, createSketch)
    /\ ret' = Ret("NewSketch", <<>>, NoError, Len(heap) + 1, <<>>, 0)
    /\ UNCHANGED <<biasStore, wire>>

\* RegisterBiases(key, biases) with the tests' table; biases.go is modelled
\* from its contract: an empty key fails, otherwise the table is stored.
RegisterBiasesOp(key) ==
    /\ IF key = ""
       THEN /\ ret' = Ret("RegisterBiases", <<>>, "invalid key", 0, <<>>, 0)
            /\ UNCHANGED biasStore
       ELSE /\ biasStore' = [k \in (DOMAIN biasStore) \cup {key} |->
                                IF k = key THEN testBiases ELSE biasStore[k]]
            /\ ret' = Ret("RegisterBiases", <<>>, NoError, 0, <<>>, 0)
    /\ UNCHANGED <<heap, wire>>

\* NewCustomSketch(biasKey)
NewCustomSketchOp(biasKey) ==
    /\ IF biasKey \notin DOMAIN biasStore
       THEN /\ ret' = Ret("NewCustomSketch", <<>>, "requested biases were not found", 0, <<>>, 0)
            /\ UNCHANGED heap
       ELSE /\ Len(heap) < MaxSketches
            /\ heap' = Append(heap, [createSketch EXCEPT !.biasSet = biasStore[biasKey]])
            /\ ret' = Ret("NewCustomSketch", <<>>, NoError, Len(heap) + 1, <<>>, 0)
    /\ UNCHANGED <<biasStore, wire>>

\* s.Insert(element)
InsertOp(s, element) ==
    LET r == Insert(heap[s], element)
    IN  /\ heap' = [heap EXCEPT ![s] = r.sketch]
        /\ ret' = Ret("Insert", <<>>, r.err, 0, <<>>, 0)
        /\ UNCHANGED <<biasStore, wire>>

\* s.Estimate()
EstimateOp(s) ==
    /\ ret' = Ret("Estimate", <<>>, NoError, 0, <<>>, Estimate(heap[s]))
    /\ UNCHANGED <<heap, biasStore, wire>>

\* s.Merge(other)
MergeOp(s, other) ==
    LET r == Merge(heap[s], heap[other])
    IN  /\ heap' = [heap EXCEPT ![s] = r.sketch]
        /\ ret' = Ret("Merge", <<s, other>>, r.err, IF r.err = NoError THEN s ELSE 0, <<>>, 0)
        /\ UNCHANGED <<biasStore, wire>>

\* s.ProtoSerialize(): the payload goes on the wire.
ProtoSerializeOp(s) ==
    LET r == ProtoSerialize(heap[s])
    IN  /\ wire' = [bytes |-> r.bytes, src |-> heap[s], intact |-> TRUE]
        /\ ret' = Ret("ProtoSerialize", <<>>, r.err, 0, <<>>, 0)
        /\ UNCHANGED <<heap, biasStore>>

\* ProtoDeserialize(protoBs) of the payload on the wire.
ProtoDeserializeOp ==
    LET r == ProtoDeserialize(wire.bytes)
    IN  /\ ret' = Ret("ProtoDeserialize", <<>>, r.err, 0,
                      IF r.err = NoError THEN <<r.sketch>> ELSE <<>>, 0)
        /\ UNCHANGED <<heap, biasStore, wire>>

\* Rollup(sketches) over a list of sketches the caller holds.
RollupOp(list) ==
    LET r == Rollup([k \in DOMAIN list |-> heap[list[k]]])
    IN  /\ ret' = Ret("Rollup", list, r.err, 0,
                      IF r.err = NoError THEN <<r.sketch>> ELSE <<>>, 0)
        /\ UNCHANGED <<heap, biasStore, wire>>

(***************************************************************************)
(* What the package's tests do to build inputs the exported API cannot:    *)
(* a sketch with another version or another register length, a register    *)
(* set by hand, and a payload that no ProtoSerialize produced.             *)
(***************************************************************************)
FixtureVersions == {currentVersion, "vTEST"}

\* <<version, len(registers)>>: another version, a short, a regular and a
\* long register array.
FixtureShapes == {<<"vTEST", m>>, <<currentVersion, 1>>, <<currentVersion, m>>, <<currentVersion, m + 1>>}

\* s := createSketch(); s.version = version; s.registers = make([]uint8, n)
FixtureOp(version, n) ==
    /\ Len(heap) < MaxSketches
    /\ heap' = Append(heap, [createSketch EXCEPT !.version = version, !.registers = Zeros(n)])
    /\ ret' = Ret("createSketch", <<>>, NoError, Len(heap) + 1, <<>>, 0)
    /\ UNCHANGED <<biasStore, wire>>

\* s.registers[i] = 1
SetRegisterOp(s, i) ==
    /\ i < Len(heap[s].registers)
    /\ heap' = [heap EXCEPT ![s].registers[i + 1] = 1]
    /\ ret' = Ret("setRegister", <<>>, NoError, 0, <<>>, 0)
    /\ UNCHANGED <<biasStore, wire>>

Garbage == <<103, 97, 114, 98, 97, 103, 101>>

\* Payloads from elsewhere: nil, "garbage", and well-formed encodings that
\* carry n registers for n in 0..m+1.
Payloads ==
    {NilBytes, Garbage}
    \cup {Marshal([Version |-> v, Registers |-> [i \in 1..n |-> 1 + (i % 2)]]) :
            v \in FixtureVersions, n \in 0..(m + 1)}

ReceiveOp(payload) ==
    /\ wire' = [bytes |-> payload, src |-> wire.src, intact |-> FALSE]
    /\ ret' = Ret("receive", <<>>, NoError, 0, <<>>, 0)
    /\ UNCHANGED <<heap, biasStore>>

RECURSIVE SeqsUpTo(_, _)
\* The sequences over S of length at most n.
SeqsUpTo(S, n) ==
    IF n = 0 THEN {<<>>}
    ELSE LET shorter == SeqsUpTo(S, n - 1)
         IN  shorter \cup {Append(q, x) : q \in shorter, x \in S}

(***************************************************************************)
(* Spec: the exported API.                                                 *)
(***************************************************************************)
Next ==
    \/ NewSketchOp /\ UNCHANGED <<seen, gen, procs>>
    \/ \E key \in BiasKeys : RegisterBiasesOp(key) /\ UNCHANGED <<seen, gen, procs>>
    \/ \E key \in BiasKeys : NewCustomSketchOp(key) /\ UNCHANGED <<seen, gen, procs>>
    \/ \E s \in Ids, element \in Elements : InsertOp(s, element) /\ UNCHANGED <<seen, gen, procs>>
    \/ \E s \in Ids : EstimateOp(s) /\ UNCHANGED <<seen, gen, procs>>
    \/ \E s \in Ids, other \in Ids : MergeOp(s, other) /\ UNCHANGED <<seen, gen, procs>>
    \/ \E s \in Ids : ProtoSerializeOp(s) /\ UNCHANGED <<seen, gen, procs>>
    \/ ProtoDeserializeOp /\ UNCHANGED <<seen, gen, procs>>

Spec == Init /\ [][Next]_vars

(***************************************************************************)
(* SpecInternal: the package's own callers, which also hand Merge and      *)
(* Rollup sketches of another version or register length.                  *)
(***************************************************************************)
NextInternal ==
    \/ \E shape \in FixtureShapes : FixtureOp(shape[1], shape[2]) /\ UNCHANGED <<seen, gen, procs>>
    \/ \E s \in Ids, i \in {0, 1} : SetRegisterOp(s, i) /\ UNCHANGED <<seen, gen, procs>>
    \/ \E s \in Ids, other \in Ids : MergeOp(s, other) /\ UNCHANGED <<seen, gen, procs>>
    \/ \E list \in SeqsUpTo(Ids, MaxList) : RollupOp(list) /\ UNCHANGED <<seen, gen, procs>>

SpecInternal == Init /\ [][NextInternal]_vars

(***************************************************************************)
(* SpecWire: payloads of any provenance reach ProtoDeserialize.            *)
(***************************************************************************)
NextWire ==
    \/ NewSketchOp /\ UNCHANGED <<seen, gen, procs>>
    \/ \E s \in Ids, element \in Elements : InsertOp(s, element) /\ UNCHANGED <<seen, gen, procs>>
    \/ \E s \in Ids : ProtoSerializeOp(s) /\ UNCHANGED <<seen, gen, procs>>
    \/ \E payload \in Payloads : ReceiveOp(payload) /\ UNCHANGED <<seen, gen, procs>>
    \/ ProtoDeserializeOp /\ UNCHANGED <<seen, gen, procs>>

SpecWire == Init /\ [][NextWire]_vars

(***************************************************************************)
(* SpecInsert: Insert and Merge with the history of completed inserts.     *)
(***************************************************************************)
Completed == {p \in seen : p[2] # 0}

NextInsert ==
    \/ NewSketchOp /\ seen' = Completed /\ UNCHANGED <<gen, procs>>
    \/ \E s \in Ids, element \in Elements :
          /\ InsertOp(s, element)
          /\ seen' = IF ret'.err # NoError THEN Completed
                     ELSE IF <<s, element>> \in seen THEN Completed \cup {<<s, 0>>}
                     ELSE Completed \cup {<<s, element>>}
          /\ UNCHANGED <<gen, procs>>
    \/ \E s \in Ids, other \in Ids : MergeOp(s, other) /\ seen' = Completed /\ UNCHANGED <<gen, procs>>

SpecInsert == Init /\ [][NextInsert]_vars

(***************************************************************************)
(* SpecAlgebra: Merge as a function.  Three compatible sketches a, b, c    *)
(* (one version, one register length) are drawn, and Merge is applied to   *)
(* copies of them in both orders and both groupings.                       *)
(***************************************************************************)
\* A sample of hash words.
StreamHashes == {Hash(e) : e \in 1..(MaxElem + 2)}

RECURSIVE AddAll(_, _)
AddAll(s, hs) ==
    IF hs = {} THEN s
    ELSE LET h == CHOOSE x \in hs : TRUE
         IN  AddAll(addHash(s, h).sketch, hs \ {h})

\* A sketch of the given version whose registers are the first n registers
\* reached by adding the hashes hs.
InputSketch(hs, version, n) ==
    [createSketch EXCEPT !.version = version,
                         !.registers = SubSeq(AddAll(createSketch, hs).registers, 1, n)]

InitAlgebra ==
    /\ \E version \in FixtureVersions, n \in {1, m} :
       \E a \in SUBSET StreamHashes, b \in SUBSET StreamHashes, c \in SUBSET StreamHashes :
          heap = <<InputSketch(a, version, n), InputSketch(b, version, n),
                   InputSketch(c, version, n)>>
    /\ seen = {}
    /\ gen = GenIdle
    /\ procs = NoProcs
    /\ biasStore = <<>>
    /\ wire = InitWire
    /\ ret = Ret("init", <<>>, NoError, 0, <<>>, 0)

\* merge(a, b) and merge(b, a)
CommuteOp ==
    /\ ret' = Ret("commute", <<>>, NoError, 0,
                  <<Merge(heap[1], heap[2]).sketch, Merge(heap[2], heap[1]).sketch>>, 0)
    /\ UNCHANGED <<heap, seen, biasStore, wire, gen, procs>>

\* merge(merge(a, b), c) and merge(a, merge(b, c))
AssociateOp ==
    /\ ret' = Ret("associate", <<>>, NoError, 0,
                  <<Merge(Merge(heap[1], heap[2]).sketch, heap[3]).sketch,
                    Merge(heap[1], Merge(heap[2], heap[3]).sketch).sketch>>, 0)
    /\ UNCHANGED <<heap, seen, biasStore, wire, gen, procs>>

NextAlgebra ==
    \/ CommuteOp
    \/ AssociateOp

SpecAlgebra == InitAlgebra /\ [][NextAlgebra]_vars

(***************************************************************************)
(* SpecPart: one stream counted twice.  Sketch 1 counts the whole stream;  *)
(* every hash also goes to one of the MaxList shard sketches 2, 3, ...;    *)
(* then the shards are merged into the first shard.                        *)
(***************************************************************************)
Shards == 2..(MaxList + 1)

InitPart ==
    /\ heap = [k \in 1..(MaxList + 1) |-> createSketch]
    /\ seen = {}
    /\ gen = GenIdle
    /\ procs = NoProcs
    /\ biasStore = <<>>
    /\ wire = InitWire
    /\ ret = Ret("init", <<>>, NoError, 0, <<>>, 1)

\* The next hash of the stream: addHash on the whole-stream sketch and on
\* the shard it is routed to.
FeedOp(h, shard) ==
    /\ ret.op \in {"init", "addHash"}
    /\ heap' = [heap EXCEPT ![1] = addHash(@, h).sketch, ![shard] = addHash(@, h).sketch]
    /\ ret' = Ret("addHash", <<>>, NoError, 0, <<>>, 1)
    /\ UNCHANGED <<seen, biasStore, wire, gen, procs>>

\* The stream has ended: the next shard is merged into the first one.
\* ret.val counts the shards combined so far.
CombineOp ==
    /\ ret.val < MaxList
    /\ LET r == Merge(heap[2], heap[ret.val + 2])
       IN  /\ heap' = [heap EXCEPT ![2] = r.sketch]
           /\ ret' = Ret("combine", <<>>, r.err, 2, <<>>, ret.val + 1)
    /\ UNCHANGED <<seen, biasStore, wire, gen, procs>>

NextPart ==
    \/ \E h \in StreamHashes, shard \in Shards : FeedOp(h, shard)
    \/ CombineOp

SpecPart == InitPart /\ [][NextPart]_vars

(***************************************************************************)
(* Properties.                                                             *)
(***************************************************************************)
NonZero(regs) == \E i \in DOMAIN regs : regs[i] > 0

\* C1: a Merge whose two sketches differ in version or in register length
\* returns an error (and no sketch), and a Merge that returns an error
\* leaves every sketch, the receiver and the other included, as it was.
C1_FailedMergeChangesNothing ==
    [][ret'.op = "Merge" =>
        LET s == ret'.args[1]
            other == ret'.args[2]
        IN  /\ (\/ heap[s].version # heap[other].version
                \/ Len(heap[s].registers) # Len(heap[other].registers))
               => ret'.err \in {ErrorMismatchedVersion, ErrorMalformedPrecision}
            /\ ret'.err # NoError => (heap' = heap /\ ret'.id = 0)]_vars

\* A Merge has failed on the register lengths with registers set on both sides.
C1_Witness ==
    /\ ret.op = "Merge"
    /\ ret.err = ErrorMalformedPrecision
    /\ NonZero(heap[ret.args[1]].registers)
    /\ NonZero(heap[ret.args[2]].registers)

\* C2: a successful Merge sets every register of the receiver to the
\* maximum of its old entry and the other's entry, returns the receiver,
\* and changes neither the other's registers, nor a version, nor the
\* receiver's bias table, nor any third sketch.
C2_MergeIsRegisterwiseMax ==
    [][(ret'.op = "Merge" /\ ret'.err = NoError) =>
        LET s == ret'.args[1]
            other == ret'.args[2]
        IN  /\ ret'.id = s
            /\ DOMAIN heap'[s].registers = DOMAIN heap[s].registers
            /\ \A i \in DOMAIN heap[s].registers :
                  heap'[s].registers[i] = Max(heap[s].registers[i], heap[other].registers[i])
            /\ heap'[other].registers = heap[other].registers
            /\ heap'[s].version = heap[s].version
            /\ heap'[other].version = heap[other].version
            /\ heap'[s].biasSet = heap[s].biasSet
            /\ \A k \in Ids : k # s => heap'[k] = heap[k]]_vars

\* A Merge has succeeded between two sketches bound to different bias
\* tables, the receiver holding a higher entry than the other somewhere.
C2_Witness ==
    /\ ret.op = "Merge"
    /\ ret.err = NoError
    /\ ret.args[1] # ret.args[2]
    /\ heap[ret.args[1]].biasSet # heap[ret.args[2]].biasSet
    /\ NonZero(heap[ret.args[2]].registers)
    /\ \E i \in DOMAIN heap[ret.args[1]].registers :
          heap[ret.args[1]].registers[i] > heap[ret.args[2]].registers[i]

\* C3: on compatible sketches merge(a, b) and merge(b, a) end with the same
\* registers, and so do merge(merge(a, b), c) and merge(a, merge(b, c)).
C3_MergeCommutesAndAssociates ==
    ret.op \in {"commute", "associate"} => ret.out[1].registers = ret.out[2].registers

\* Both groupings have been computed on three sketches with pairwise
\* different registers, none of them the result.
C3_Witness ==
    /\ ret.op = "associate"
    /\ heap[1].registers # heap[2].registers
    /\ heap[2].registers # heap[3].registers
    /\ heap[1].registers # heap[3].registers
    /\ \A k \in 1..3 : ret.out[1].registers # heap[k].registers

\* C4: once the shards are merged, the first shard holds exactly the
\* registers of the sketch that counted the whole stream.
C4_PartitionThenMergeEqualsOneStream ==
    (ret.op = "combine" /\ ret.val = MaxList) =>
        (ret.err = NoError /\ heap[2].registers = heap[1].registers)

\* The shards are merged, every shard had counted something, and no shard
\* alone had the whole stream's registers.
C4_Witness ==
    /\ ret.op = "combine"
    /\ ret.val = MaxList
    /\ \A k \in Shards : NonZero(heap[k].registers)
    /\ \A k \in Shards \ {2} : heap[k].registers # heap[1].registers

\* The sketches a Rollup or Merge call was handed, read from the heap.
Inputs(h, list) == [k \in DOMAIN list |-> h[list[k]]]

VersionsDiffer(in) == \E k \in DOMAIN in : in[k].version # in[1].version

LengthsDiffer(in) == \E k \in DOMAIN in : Len(in[k].registers) # Len(in[1].registers)

RECURSIVE MergeInto(_, _, _)
\* A copy of base with in[k], in[k+1], ... merged into it one after another.
MergeInto(base, in, k) ==
    IF k > Len(in) THEN base ELSE MergeInto(Merge(base, in[k]).sketch, in, k + 1)

\* C5: for a non-empty list of compatible sketches Rollup returns a new
\* sketch with the inputs' common version whose registers are those of a
\* copy of the first input with the others merged into it.
C5_RollupEqualsMerges ==
    (/\ ret.op = "Rollup"
     /\ Len(ret.args) > 0
     /\ ~VersionsDiffer(Inputs(heap, ret.args))
     /\ ~LengthsDiffer(Inputs(heap, ret.args)))
    => /\ ret.err = NoError
       /\ Len(ret.out) = 1
       /\ ret.out[1].version = heap[ret.args[1]].version
       /\ ret.out[1].registers =
             MergeInto(heap[ret.args[1]], Inputs(heap, ret.args), 2).registers

\* C6: Rollup fails on an empty list, on a version that differs from the
\* first element's and on a register length that differs from the first
\* element's, the last two with different errors; a failed Rollup returns
\* no sketch and changes no input.
C6_RollupValidatesFirst ==
    [][ret'.op = "Rollup" =>
        LET in == Inputs(heap, ret'.args)
        IN  /\ IF Len(in) = 0 THEN ret'.err = RollupNoList
               ELSE IF VersionsDiffer(in)
               THEN IF LengthsDiffer(in)
                    THEN ret'.err \in {RollupVersion, RollupPrecision}
                    ELSE ret'.err = RollupVersion
               ELSE LengthsDiffer(in) => ret'.err = RollupPrecision
            /\ RollupVersion # RollupPrecision
            /\ ret'.err # NoError => (ret'.out = <<>> /\ heap' = heap)]_vars

\* Rollup has failed on the register lengths of sketches that hold entries.
C6_Witness ==
    /\ ret.op = "Rollup"
    /\ ret.err = RollupPrecision
    /\ \A k \in DOMAIN ret.args : NonZero(heap[ret.args[k]].registers)

\* C7: handed sketches of one version and one register length other than
\* m, Rollup returns an error: it neither faults nor returns a sketch.
C7_RollupRejectsMalformed ==
    (/\ ret.op = "Rollup"
     /\ Len(ret.args) > 0
     /\ ~VersionsDiffer(Inputs(heap, ret.args))
     /\ ~LengthsDiffer(Inputs(heap, ret.args))
     /\ Len(heap[ret.args[1]].registers) # m)
    => (ret.err \notin {NoError, IndexOutOfRange} /\ ret.out = <<>>)

\* C8: handed a decodable payload that carries a number of registers other
\* than m, ProtoDeserialize returns an error: it neither faults nor returns
\* a sketch.
C8_DeserializeValidatesCount ==
    (/\ ret.op = "ProtoDeserialize"
     /\ wire.bytes # NilBytes
     /\ Unmarshal(wire.bytes).ok
     /\ Len(Unmarshal(wire.bytes).msg.Registers) # m)
    => (ret.err \notin {NoError, IndexOutOfRange} /\ ret.out = <<>>)

\* C9 as claimed: deserializing what ProtoSerialize produced from a sketch
\* built by the constructors, Insert and Merge succeeds and yields the
\* sketch's version, registers and Estimate().
C9_RoundTripKeepsEstimate ==
    (ret.op = "ProtoDeserialize" /\ wire.intact)
    => /\ ret.err = NoError
       /\ Len(ret.out) = 1
       /\ ret.out[1].version = wire.src.version
       /\ ret.out[1].registers = wire.src.registers
       /\ Estimate(ret.out[1]) = Estimate(wire.src)

\* C9 as amended: the round trip succeeds and yields the sketch's version
\* and registers; the result is bound to the default bias table, so its
\* Estimate() is that of the original when the original is bound to the
\* default table too.
C9_RoundTrip ==
    (ret.op = "ProtoDeserialize" /\ wire.intact)
    => /\ ret.err = NoError
       /\ Len(ret.out) = 1
       /\ ret.out[1].version = wire.src.version
       /\ ret.out[1].registers = wire.src.registers
       /\ ret.out[1].biasSet = defaultBiases
       /\ wire.src.biasSet = defaultBiases => Estimate(ret.out[1]) = Estimate(wire.src)

\* A sketch bound to the default table, holding entries and estimating
\* above zero, has gone through the round trip.
C9_Witness ==
    /\ ret.op = "ProtoDeserialize"
    /\ wire.intact
    /\ wire.src.biasSet = defaultBiases
    /\ NonZero(wire.src.registers)
    /\ Len(ret.out) = 1
    /\ Estimate(ret.out[1]) > 0

\* C10: an Insert lowers no register, and an Insert of an element the
\* sketch has had inserted before (whatever Insert and Merge calls came in
\* between) changes no register and not the sketch's Estimate().
C10_InsertMonotonicIdempotent ==
    [][ret'.op = "Insert" =>
        \A s \in Ids :
            /\ DOMAIN heap'[s].registers = DOMAIN heap[s].registers
            /\ \A i \in DOMAIN heap[s].registers :
                  heap'[s].registers[i] >= heap[s].registers[i]
            /\ \A element \in Elements :
                  (InsertOp(s, element) /\ <<s, element>> \in seen)
                  => /\ heap'[s].registers = heap[s].registers
                     /\ Estimate(heap'[s]) = Estimate(heap[s])]_vars

\* The last call was an Insert of an element inserted before, into a
\* sketch that has had two different elements inserted that fall into one
\* register.
C10_Witness ==
    /\ ret.op = "Insert"
    /\ ret.err = NoError
    /\ \E s \in Ids, e1 \in Elements, e2 \in Elements :
          /\ <<s, 0>> \in seen
          /\ e1 # e2
          /\ {<<s, e1>>, <<s, e2>>} \subseteq seen
          /\ getRegisterAndLeadingZeros(Hash(e1))[1] = getRegisterAndLeadingZeros(Hash(e2))[1]
          /\ getRegisterAndLeadingZeros(Hash(e1))[2] # getRegisterAndLeadingZeros(Hash(e2))[2]

(***************************************************************************)
(* SpecHash: addHash as a function of the hash.  The sketch starts with    *)
(* any registers holding 0, the lowest or the highest count, and one       *)
(* addHash of any hash word is applied to it.                              *)
(***************************************************************************)
AllHashes == 0..(Pow2(hashLength) - 1)

EdgeCounts == {0, 1, remnant + 1}

InitHash ==
    /\ \E regs \in [1..m -> EdgeCounts] :
          heap = <<[createSketch EXCEPT !.registers = regs]>>
    /\ seen = {}
    /\ gen = GenIdle
    /\ procs = NoProcs
    /\ biasStore = <<>>
    /\ wire = InitWire
    /\ ret = Ret("init", <<>>, NoError, 0, <<>>, 0)

\* s.addHash(h)
AddHashOp(s, h) ==
    LET r == addHash(heap[s], h)
    IN  /\ heap' = [heap EXCEPT ![s] = r.sketch]
        /\ ret' = Ret("addHash", <<h>>, r.err, 0, <<>>, 0)
        /\ UNCHANGED <<seen, biasStore, wire, gen, procs>>

NextHash ==
    \/ ret.op = "init" /\ \E h \in AllHashes : AddHashOp(1, h)

SpecHash == InitHash /\ [][NextHash]_vars

\* C13: adding a hash h sets the register numbered by the top precision
\* bits of h to the maximum of its old value and z, where z is 1 plus the
\* number of leading zero bits of the low remnant bits of h counted in a
\* window of remnant bits (z = remnant + 1 when they are all zero), and
\* changes no other register.
C13_AddHashRaisesOneRegister ==
    [][ret'.op = "addHash" =>
        LET h == ret'.args[1]
            top == h \div Pow2(remnant)
            low == h % Pow2(remnant)
            z == CHOOSE k \in 1..(remnant + 1) :
                    /\ low < Pow2(remnant - k + 1)
                    /\ k = remnant + 1 \/ low >= Pow2(remnant - k)
        IN  /\ ret'.err = NoError
            /\ heap'[1].registers = [heap[1].registers EXCEPT ![top + 1] = Max(@, z)]]_vars

\* A hash whose low remnant bits are all zero has been added: its register
\* holds remnant + 1, and another register still holds the count 1.
C13_Witness ==
    /\ ret.op = "addHash"
    /\ ret.args[1] % Pow2(remnant) = 0
    /\ heap[1].registers[(ret.args[1] \div Pow2(remnant)) + 1] = remnant + 1
    /\ \E i \in DOMAIN heap[1].registers :
          i # (ret.args[1] \div Pow2(remnant)) + 1 /\ heap[1].registers[i] = 1

(***************************************************************************)
(* SpecEstimate: Estimate as a function of the sketch.  The sketch starts  *)
(* with any register array addHash, Merge and Rollup can produce on m      *)
(* registers (every count 0..remnant + 1 in every register), bound to the  *)
(* default table or to the tests' table, and Estimate is called on it.     *)
(***************************************************************************)
Counts == 0..(remnant + 1)

InitEstimate ==
    /\ \E regs \in [1..m -> Counts], bs \in {defaultBiases, testBiases} :
          heap = <<[createSketch EXCEPT !.registers = regs, !.biasSet = bs]>>
    /\ seen = {}
    /\ gen = GenIdle
    /\ procs = NoProcs
    /\ biasStore = <<>>
    /\ wire = InitWire
    /\ ret = Ret("init", <<>>, NoError, 0, <<>>, 0)

NextEstimate ==
    \/ EstimateOp(1) /\ UNCHANGED <<seen, gen, procs>>

SpecEstimate == InitEstimate /\ [][NextEstimate]_vars

\* C14: on a sketch of m registers, whenever Estimate takes the linear
\* counting branch (raw estimate not above maxTick and below
\* maxLinearCounting) some register is still 0, and the number Estimate
\* returns is never the conversion of an infinite value.
C14_LinearCountingHasZeroRegister ==
    ret.op = "Estimate" =>
        LET s == heap[1]
            raw == rawHarmonicEstimate(s)
        IN  /\ (raw <= s.biasSet.maxTick /\ raw < maxLinearCounting)
                   => \E i \in DOMAIN s.registers : s.registers[i] = 0
            /\ ret.val # InfAsUint64

\* Estimate has taken the linear counting branch on a sketch that holds
\* entries, and returned a count above zero.
C14_Witness ==
    /\ ret.op = "Estimate"
    /\ NonZero(heap[1].registers)
    /\ rawHarmonicEstimate(heap[1]) <= heap[1].biasSet.maxTick
    /\ rawHarmonicEstimate(heap[1]) < maxLinearCounting
    /\ ret.val > 0

(***************************************************************************)
(* GenerateBiases, step by step.  gen.pc names the function the call is    *)
(* in; "cardinalities" and "sets" are the two places GenerateBiases has    *)
(* the result of a callee in hand; "returned" is after its return.         *)
(***************************************************************************)
RECURSIVE SumTo(_, _)
SumTo(f, n) == IF n = 0 THEN 0 ELSE f[n] + SumTo(f, n - 1)

\* The loop over the cardinalities: for each, the raw estimate of the first
\* cardinality hashes of every set and their drift, averaged over the
\* repeats (the bias in percent; 0 - 1 for a division by a raw estimate 0).
EstimateBiases(g) ==
    LET repeats == g.options.Repeats
        raw(k, r) == rawHarmonicEstimate(
                        AddAll(createSketch, {g.sets[r][j] : j \in 1..g.cardinalities[k]}))
        theseEstimates(k) == [r \in 1..repeats |-> raw(k, r)]
        theseBiases(k) == [r \in 1..repeats |->
                              IF raw(k, r) = 0 THEN 0 - 1
                              ELSE (100 * g.cardinalities[k]) \div raw(k, r)]
    IN  IF \E k \in DOMAIN g.cardinalities, r \in 1..repeats :
              g.cardinalities[k] > Len(g.sets[r])
        THEN [g EXCEPT !.pc = SliceOutOfRange]
        ELSE [g EXCEPT !.pc = "returned",
                       !.results = [k \in DOMAIN g.cardinalities |->
                           [TrueCardinality |-> g.cardinalities[k],
                            RawEstimatedCardinality |-> SumTo(theseEstimates(k), repeats) \div repeats,
                            Bias |-> SumTo(theseBiases(k), repeats) \div repeats]]]

\* GenerateBiases(fn, options) up to its call of calculateInterpolationPoints.
GenerateBiasesOp ==
    /\ gen.pc = "GenerateBiases"
    /\ LET err == GenerateBiasesValidate(gen.fn, gen.in)
       IN  gen' = IF err # NoError
                  THEN [gen EXCEPT !.pc = "returned", !.err = err,
                                   !.options = EffectiveOptions(gen.in)]
                  ELSE PointsEnter([gen EXCEPT !.options = EffectiveOptions(gen.in)])
    /\ UNCHANGED <<heap, seen, biasStore, wire, ret, procs>>

PointsStepOp ==
    /\ gen.pc = "calculateInterpolationPoints"
    /\ gen.i < gen.options.MaxCardinality
    /\ gen' = PointsStep(gen)
    /\ UNCHANGED <<heap, seen, biasStore, wire, ret, procs>>

PointsReturnOp ==
    /\ gen.pc = "calculateInterpolationPoints"
    /\ gen.i >= gen.options.MaxCardinality
    /\ gen' = PointsReturn(gen)
    /\ UNCHANGED <<heap, seen, biasStore, wire, ret, procs>>

\* GenerateBiases calls generateSets.
SetsEnterOp ==
    /\ gen.pc = "cardinalities"
    /\ gen' = SetsEnter(gen)
    /\ UNCHANGED <<heap, seen, biasStore, wire, ret, procs>>

SampleOp(element) ==
    /\ gen.pc = "generateSets"
    /\ gen.r < gen.options.Repeats
    /\ gen.totalUniquesGenerated < gen.options.MaxCardinality
    /\ element \in gen.fn[1]
    /\ gen' = Sample(gen, element)
    /\ UNCHANGED <<heap, seen, biasStore, wire, ret, procs>>

SetDoneOp ==
    /\ gen.pc = "generateSets"
    /\ gen.r < gen.options.Repeats
    /\ gen.totalUniquesGenerated >= gen.options.MaxCardinality
    /\ \E set \in Orders(gen.uniques) : gen' = SetDone(gen, set)
    /\ UNCHANGED <<heap, seen, biasStore, wire, ret, procs>>

SetsReturnOp ==
    /\ gen.pc = "generateSets"
    /\ gen.r >= gen.options.Repeats
    /\ gen' = SetsReturn(gen)
    /\ UNCHANGED <<heap, seen, biasStore, wire, ret, procs>>

\* GenerateBiases from the return of generateSets to its own return.
EstimateBiasesOp ==
    /\ gen.pc = "sets"
    /\ gen' = EstimateBiases(gen)
    /\ UNCHANGED <<heap, seen, biasStore, wire, ret, procs>>

(***************************************************************************)
(* SpecGen: one call of GenerateBiases with a nil or a working sampler     *)
(* and nil options or the options of the tests.                            *)
(***************************************************************************)
Sampler == 1..(MaxElem + 3)

TestOptions ==
    {GenerationOptions(c, r, s, rate) :
        c \in {0, m, m + 1}, r \in {0 - 1, 0, 1}, s \in {0, 1}, rate \in {<<0, 1>>, <<1, 1>>}}

InitGen ==
    /\ heap = <<>>
    /\ seen = {}
    /\ biasStore = <<>>
    /\ wire = InitWire
    /\ ret = Ret("init", <<>>, NoError, 0, <<>>, 0)
    /\ procs = NoProcs
    /\ \E fn \in {<<>>, <<Sampler>>}, options \in {<<>>} \cup {<<o>> : o \in TestOptions} :
          gen = [GenIdle EXCEPT !.pc = "GenerateBiases", !.fn = fn, !.in = options]

NextGen ==
    \/ GenerateBiasesOp
    \/ PointsStepOp
    \/ PointsReturnOp
    \/ SetsEnterOp
    \/ \E element \in Sampler : SampleOp(element)
    \/ SetDoneOp
    \/ SetsReturnOp
    \/ EstimateBiasesOp

SpecGen == InitGen /\ [][NextGen]_vars

\* C11: once GenerateBiases is past its checks, if fn is nil or the options
\* in force (the defaults 7 * m, 5000, 50, 1.25 when options is nil) have
\* MaxCardinality <= m, Repeats <= 0, InitialStep <= 0 or StepRate <= 0,
\* the call has returned an error, fn was never invoked and no tick, set
\* or result was built.
C11_GenerateBiasesFailsFast ==
    gen.pc # "GenerateBiases" =>
        LET o == IF gen.in = <<>>
                 THEN [MaxCardinality |-> 7 * m, Repeats |-> 5000,
                       InitialStep |-> 50, StepRate |-> <<5, 4>>]
                 ELSE gen.in[1]
            bad == \/ gen.fn = <<>>
                   \/ o.MaxCardinality <= m
                   \/ o.Repeats <= 0
                   \/ o.InitialStep <= 0
                   \/ o.StepRate[1] <= 0
        IN  /\ gen.options = o
            /\ bad => /\ gen.pc = "returned"
                      /\ gen.err # NoError
                      /\ ~gen.invoked
                      /\ gen.ticks = <<>> /\ gen.cardinalities = <<>>
                      /\ gen.uniques = {} /\ gen.sets = <<>>
                      /\ gen.results = <<>>

\* A call with a working sampler and options whose only fault is the step
\* rate has returned the step rate error.
C11_Witness ==
    /\ gen.pc = "returned"
    /\ gen.fn # <<>>
    /\ gen.in # <<>>
    /\ gen.err = ErrorStepRate
    /\ ~gen.invoked

(***************************************************************************)
(* SpecPoints: one call of calculateInterpolationPoints with arguments     *)
(* the checks of GenerateBiases let through: maxCardinality above m, an    *)
(* initial step above 0 and a step rate above 0, below, at and above 1.    *)
(* The loop is scheduled until it ends.                                    *)
(***************************************************************************)
StepRates == {<<1, 2>>, <<1, 1>>, <<5, 4>>, <<2, 1>>}

InitPoints ==
    /\ heap = <<>>
    /\ seen = {}
    /\ biasStore = <<>>
    /\ wire = InitWire
    /\ ret = Ret("init", <<>>, NoError, 0, <<>>, 0)
    /\ procs = NoProcs
    /\ \E maxCardinality \in {m + 1, 3 * m}, initialStep \in 1..3, stepRate \in StepRates :
          /\ GenerateBiasesValidate(<<Sampler>>,
                <<GenerationOptions(maxCardinality, 1, initialStep, stepRate)>>) = NoError
          /\ gen = PointsEnter([GenIdle EXCEPT !.options =
                       GenerationOptions(maxCardinality, 1, initialStep, stepRate)])

NextPoints ==
    \/ PointsStepOp
    \/ PointsReturnOp

SpecPoints == InitPoints /\ [][NextPoints]_vars /\ WF_vars(NextPoints)

\* C15: calculateInterpolationPoints, called with arguments the checks of
\* GenerateBiases accept, returns, and what it returns is strictly
\* ascending with every point above 0 and below maxCardinality.
C15_PointsTerminateAscending ==
    <>(/\ gen.pc = "cardinalities"
       /\ \A k \in DOMAIN gen.cardinalities :
             /\ gen.cardinalities[k] > 0
             /\ gen.cardinalities[k] < gen.options.MaxCardinality
             /\ k > 1 => gen.cardinalities[k - 1] < gen.cardinalities[k])

(***************************************************************************)
(* SpecSets: one call of generateSets(fn, maxCardinality, repeats) with a  *)
(* sampler that returns the elements of a fixed pool, in any order and     *)
(* with any repetition.  The loops are scheduled until they end, and the   *)
(* sampler does not withhold for ever an element whose hash is new.        *)
(***************************************************************************)
Pool == 1..(MaxElem + 1)

InitSets ==
    /\ heap = <<>>
    /\ seen = {}
    /\ biasStore = <<>>
    /\ wire = InitWire
    /\ ret = Ret("init", <<>>, NoError, 0, <<>>, 0)
    /\ procs = NoProcs
    /\ \E fn \in (SUBSET Pool) \ {{}}, maxCardinality \in 0..(MaxElem + 1), repeats \in {1, 2} :
          gen = SetsEnter([GenIdle EXCEPT !.fn = <<fn>>, !.options =
                    GenerationOptions(maxCardinality, repeats, 1, <<1, 1>>)])

\* fn() returns an element whose hash is not in uniques yet.
FreshSampleOp ==
    \E element \in Pool : SampleOp(element) /\ Hash(element) \notin gen.uniques

NextSets ==
    \/ \E element \in Pool : SampleOp(element)
    \/ SetDoneOp
    \/ SetsReturnOp

SpecSets ==
    /\ InitSets
    /\ [][NextSets]_vars
    /\ WF_vars(FreshSampleOp)
    /\ WF_vars(SetDoneOp)
    /\ WF_vars(SetsReturnOp)

\* C16: when generateSets has returned, it has returned repeats sets of
\* maxCardinality pairwise different hashes each; it returns if the sampler
\* has maxCardinality different hashes to give, and never returns if it
\* has fewer.
C16_GenerateSetsTerminatesIffEnough ==
    /\ [](gen.pc = "sets" =>
            /\ Len(gen.sets) = gen.options.Repeats
            /\ \A k \in DOMAIN gen.sets :
                  /\ Len(gen.sets[k]) = gen.options.MaxCardinality
                  /\ \A a, b \in DOMAIN gen.sets[k] :
                        a # b => gen.sets[k][a] # gen.sets[k][b])
    /\ (Cardinality({Hash(e) : e \in gen.fn[1]}) >= gen.options.MaxCardinality
           => <>(gen.pc = "sets"))
    /\ (Cardinality({Hash(e) : e \in gen.fn[1]}) < gen.options.MaxCardinality
           => [](gen.pc # "sets"))

\* generateSets has returned two sets of at least two hashes each, in two
\* different orders, drawn from a sampler that has more hashes to give.
C16_Witness ==
    /\ gen.pc = "sets"
    /\ gen.invoked
    /\ Len(gen.sets) = 2
    /\ gen.options.MaxCardinality >= 2
    /\ gen.sets[1] # gen.sets[2]
    /\ Cardinality(gen.fn[1]) > gen.options.MaxCardinality

(***************************************************************************)
(* SpecRegistry: goroutines that call RegisterBiases and NewCustomSketch   *)
(* at the same time.  NewCustomSketch reads the map biasStore as its       *)
(* source does, with no lock.  biases.go is not part of the sources at     *)
(* hand: RegisterBiases is modelled from its contract (an empty key fails, *)
(* the table is built first and then stored) and as the most careful       *)
(* writer that contract allows, one that holds a lock around its write to  *)
(* the map.  A map read that overlaps a map write is a data race: what it  *)
(* returns is any of the outcomes below.                                   *)
(***************************************************************************)
Calls == {<<"RegisterBiases", "custom">>, <<"RegisterBiases", "">>,
          <<"NewCustomSketch", "custom">>}

Frame(call) ==
    [op |-> call[1], key |-> call[2], pc |-> "call", raced |-> FALSE,
     err |-> NoError, out |-> <<>>]

ConcurrentMapAccess == "fatal error: concurrent map read and map write"

\* What a racing lookup can return of an entry in the middle of its
\* insertion: the key is there, the table is not.
TornEntry == [maxTick |-> 0 - 1, bias |-> 0 - 1]

Goroutines == DOMAIN procs.g

InMapAssign == {w \in Goroutines : procs.g[w].pc = "mapassign"}

InMapAccess == {r \in Goroutines : procs.g[r].pc = "mapaccess"}

InitRegistry ==
    /\ heap = <<>>
    /\ seen = {}
    /\ biasStore = <<>>
    /\ wire = InitWire
    /\ ret = Ret("init", <<>>, NoError, 0, <<>>, 0)
    /\ gen = GenIdle
    /\ \E calls \in [1..MaxProcs -> Calls] :
          procs = [mu |-> 0, g |-> [k \in 1..MaxProcs |-> Frame(calls[k])]]

\* RegisterBiases: the checks and the construction of the table.
RegisterBuildOp(w) ==
    /\ procs.g[w].op = "RegisterBiases"
    /\ procs.g[w].pc = "call"
    /\ procs' = IF procs.g[w].key = ""
                THEN [procs EXCEPT !.g[w].pc = "returned", !.g[w].err = "invalid key"]
                ELSE [procs EXCEPT !.g[w].pc = "built"]
    /\ UNCHANGED <<heap, seen, biasStore, wire, ret, gen>>

RegisterLockOp(w) ==
    /\ procs.g[w].pc = "built"
    /\ procs.mu = 0
    /\ procs' = [procs EXCEPT !.mu = w, !.g[w].pc = "locked"]
    /\ UNCHANGED <<heap, seen, biasStore, wire, ret, gen>>

\* biasStore[key] = table begins: every lookup under way now overlaps it.
RegisterAssignOp(w) ==
    /\ procs.g[w].pc = "locked"
    /\ procs' = [procs EXCEPT !.g = [k \in Goroutines |->
                    IF k = w THEN [procs.g[k] EXCEPT !.pc = "mapassign"]
                    ELSE IF k \in InMapAccess THEN [procs.g[k] EXCEPT !.raced = TRUE]
                    ELSE procs.g[k]]]
    /\ UNCHANGED <<heap, seen, biasStore, wire, ret, gen>>

\* biasStore[key] = table ends: the entry is in the map.
RegisterStoreOp(w) ==
    /\ procs.g[w].pc = "mapassign"
    /\ biasStore' = [k \in (DOMAIN biasStore) \cup {procs.g[w].key} |->
                        IF k = procs.g[w].key THEN testBiases ELSE biasStore[k]]
    /\ procs' = [procs EXCEPT !.g[w].pc = "stored"]
    /\ UNCHANGED <<heap, seen, wire, ret, gen>>

RegisterUnlockOp(w) ==
    /\ procs.g[w].pc = "stored"
    /\ procs' = [procs EXCEPT !.mu = 0, !.g[w].pc = "returned"]
    /\ UNCHANGED <<heap, seen, biasStore, wire, ret, gen>>

\* NewCustomSketch: the read biasStore[biasKey] begins.
LookupBeginOp(r) ==
    /\ procs.g[r].op = "NewCustomSketch"
    /\ procs.g[r].pc = "call"
    /\ procs' = [procs EXCEPT !.g[r].pc = "mapaccess", !.g[r].raced = InMapAssign # {}]
    /\ UNCHANGED <<heap, seen, biasStore, wire, ret, gen>>

\* NewCustomSketch from the end of the read to its return.
LookupEndOp(r) ==
    /\ procs.g[r].pc = "mapaccess"
    /\ LET key == procs.g[r].key
           found(bs) == [procs EXCEPT !.g[r].pc = "returned",
                            !.g[r].out = <<[createSketch EXCEPT !.biasSet = bs]>>]
           missing == [procs EXCEPT !.g[r].pc = "returned",
                          !.g[r].err = "requested biases were not found"]
       IN  IF procs.g[r].raced
           THEN \/ procs' = [procs EXCEPT !.g[r].pc = ConcurrentMapAccess]
                \/ procs' = found(TornEntry)
                \/ procs' = found(testBiases)
                \/ procs' = missing
           ELSE procs' = IF key \in DOMAIN biasStore THEN found(biasStore[key]) ELSE missing
    /\ UNCHANGED <<heap, seen, biasStore, wire, ret, gen>>

NextRegistry ==
    \/ \E w \in Goroutines : RegisterBuildOp(w)
    \/ \E w \in Goroutines : RegisterLockOp(w)
    \/ \E w \in Goroutines : RegisterAssignOp(w)
    \/ \E w \in Goroutines : RegisterStoreOp(w)
    \/ \E w \in Goroutines : RegisterUnlockOp(w)
    \/ \E r \in Goroutines : LookupBeginOp(r)
    \/ \E r \in Goroutines : LookupEndOp(r)

SpecRegistry == InitRegistry /\ [][NextRegistry]_vars

\* C12: no read or write of the registry map is under way while a write of
\* it is, and a lookup that has returned has found no entry or a completely
\* built table.
C12_RegistrySafeUnderConcurrency ==
    /\ \A w \in InMapAssign : InMapAssign \cup InMapAccess = {w}
    /\ \A r \in Goroutines :
          /\ procs.g[r].pc # ConcurrentMapAccess
          /\ (procs.g[r].op = "NewCustomSketch" /\ procs.g[r].pc = "returned")
                => \/ procs.g[r].out = <<>>
                   \/ procs.g[r].out[1].biasSet = testBiases

====
